---------------------------- MODULE Spec2Model ----------------------------
(***************************************************************************)
(* A model of mystore-rs (src/main.rs): the FileManager over a directory   *)
(* tree, the Viewer, the Editor, the rolling five-byte cipher and the      *)
(* session's mode state machine (update / run_session / main).             *)
(*                                                                         *)
(* Conventions.                                                            *)
(*  - A String is the sequence of its UTF-8 bytes; a Vec<u8> is a sequence *)
(*    of bytes.  Indices kept by the code (selected, count) are 0-based as *)
(*    in the code; s[i + 1] reads element i of a Rust vector s.            *)
(*  - A PathBuf is the sequence of its components.                         *)
(*  - Option<T> is None or Some(x); Result is a record with an ok field.   *)
(***************************************************************************)
EXTENDS Integers, Sequences, FiniteSets, TLC

VARIABLES
    pc,         \* where the process is: "loop" (run_session's loop),
                \* "shutdown" (run_session returned), "done" (main returned);
                \* "api", "editor", "viewer" and "cipher" when a FileManager,
                \* an Editor, a Viewer or the cipher is driven directly,
                \* without a session
    result,     \* what run_session returned: "none" (not yet), "Ok", "Err"
    output,     \* the line main printed at its end: "none", "End", "Error"
                \* ("Panic": the message of a panic)
    exit_code,  \* the status the process ended with (-1 while it runs)
    disk,       \* the file system: [dirs, files]
    clock,      \* the wall clock: Utc::now() names files, stamps mtimes
    manager,    \* FileManager
    viewer,     \* Viewer
    editor,     \* Editor
    mode,       \* Mode of run_session
    status,     \* status of run_session: "Ok" or the error held
    last_call,  \* observer: the last call made and what it returned: of
                \* update ("save" and "encrypt_save" name its two saving
                \* branches, "dismiss" the one that leaves the viewer,
                \* "open_editor" the one that enters the editor as it is), of
                \* a FileManager method or of an Editor or Viewer method
    next_run,   \* observer: calls of next() in a row since the cursor was unset
    cipher      \* the cipher functions applied to chosen inputs

vars == << pc, result, output, exit_code, disk, clock, manager,
           viewer, editor, mode, status, last_call, next_run, cipher >>

----------------------------------------------------------------------------
(* Bounds of the model. *)

\* create_file is called at most this many times in one run
MaxClock == 1
\* the Down key is pressed in the Viewer only while scroll is below this
MaxScroll == 2
\* the cipher is applied to texts of at most this many characters
MaxChars == 3

----------------------------------------------------------------------------
(* Option, Result *)

None == [some |-> FALSE]
Some(x) == [some |-> TRUE, val |-> x]

Ok(x) == [ok |-> TRUE, val |-> x]
Err(e) == [ok |-> FALSE, err |-> e]

----------------------------------------------------------------------------
(* Strings as UTF-8 byte sequences *)

Str_empty == << >>
Str_abcde == <<97, 98, 99, 100, 101>>
Str_abc == <<97, 98, 99>>
Str_secret == <<115, 101, 99, 114, 101, 116>>
\* "\u{e9}" (e acute): one char, two bytes
Str_eacute == <<195, 169>>

IsPrefix(s, t) == Len(s) <= Len(t) /\ SubSeq(t, 1, Len(s)) = s

\* String::from_utf8 / read_to_string accept exactly the well-formed UTF-8
\* byte sequences: b[i..] is well formed.
RECURSIVE Utf8ValidFrom(_, _)
Utf8ValidFrom(b, i) ==
    LET n == Len(b)
        Cont(j) == j <= n /\ b[j] >= 128 /\ b[j] <= 191
        In(j, lo, hi) == j <= n /\ b[j] >= lo /\ b[j] <= hi
    IN  IF i > n THEN TRUE
        ELSE IF b[i] <= 127 THEN Utf8ValidFrom(b, i + 1)
        ELSE IF b[i] >= 194 /\ b[i] <= 223
            THEN Cont(i + 1) /\ Utf8ValidFrom(b, i + 2)
        ELSE IF b[i] = 224
            THEN In(i + 1, 160, 191) /\ Cont(i + 2) /\ Utf8ValidFrom(b, i + 3)
        ELSE IF b[i] = 237
            THEN In(i + 1, 128, 159) /\ Cont(i + 2) /\ Utf8ValidFrom(b, i + 3)
        ELSE IF b[i] >= 225 /\ b[i] <= 239
            THEN Cont(i + 1) /\ Cont(i + 2) /\ Utf8ValidFrom(b, i + 3)
        ELSE IF b[i] = 240
            THEN In(i + 1, 144, 191) /\ Cont(i + 2) /\ Cont(i + 3)
                 /\ Utf8ValidFrom(b, i + 4)
        ELSE IF b[i] >= 241 /\ b[i] <= 243
            THEN Cont(i + 1) /\ Cont(i + 2) /\ Cont(i + 3)
                 /\ Utf8ValidFrom(b, i + 4)
        ELSE IF b[i] = 244
            THEN In(i + 1, 128, 143) /\ Cont(i + 2) /\ Cont(i + 3)
                 /\ Utf8ValidFrom(b, i + 4)
        ELSE FALSE

from_utf8(b) == IF Utf8ValidFrom(b, 1) THEN Ok(b) ELSE Err("FromUtf8Error")

\* `x as u8` of an i32
as_u8(x) == x % 256

----------------------------------------------------------------------------
(* The cipher: Viewer::crypt_rm, Viewer::decrypt_binary, Editor::crypt_add, *)
(* Editor::encrypt_string                                                   *)

\* a subtraction without the wrap below zero and with the wrong direction
crypt_rm_adds(c, count, key) == c + key[count + 1]

crypt_rm(c, count, key) ==
    IF c < key[count + 1] THEN c - key[count + 1] + 256
    ELSE c - key[count + 1]

\* the bytes the loop of decrypt_binary pushes, from position i on, the
\* running count being (i - 1) % 5
RECURSIVE decrypt_loop(_, _, _, _)
decrypt_loop(bin, key, i, count) ==
    IF i > Len(bin) THEN << >>
    ELSE << as_u8(crypt_rm(bin[i], count, key)) >>
         \o decrypt_loop(bin, key, i + 1, (count + 1) % 5)

decrypt_binary(bin, key) == from_utf8(decrypt_loop(bin, key, 1, 0))

crypt_add(c, count, key) == (c + key[count + 1]) % 256

RECURSIVE encrypt_loop(_, _, _, _)
encrypt_loop(str, key, i, count) ==
    IF i > Len(str) THEN << >>
    ELSE << as_u8(crypt_add(str[i], count, key)) >>
         \o encrypt_loop(str, key, i + 1, (count + 1) % 5)

encrypt_string(str, key) == encrypt_loop(str, key, 1, 0)

----------------------------------------------------------------------------
(* Paths and the file system *)

\* the names that occur, in the byte order in which paths compare
NameOrder == << "0001", "0002", "0003", "0004", "A", "B", "C", "f1", "f2", "r", "x" >>

NameRank(n) == CHOOSE i \in 1..Len(NameOrder) : NameOrder[i] = n

\* Ord of PathBuf: component by component, a proper prefix first
RECURSIVE PathLess(_, _)
PathLess(p, q) ==
    IF q = << >> THEN FALSE
    ELSE IF p = << >> THEN TRUE
    ELSE IF Head(p) = Head(q) THEN PathLess(Tail(p), Tail(q))
    ELSE NameRank(Head(p)) < NameRank(Head(q))

\* a parent that skips a level
parent_two_up(p) ==
    IF Len(p) = 0 THEN None
    ELSE IF Len(p) = 1 THEN Some(<< >>)
    ELSE Some(SubSeq(p, 1, Len(p) - 2))

\* Path::parent
parent(p) == IF Len(p) = 0 THEN None ELSE Some(SubSeq(p, 1, Len(p) - 1))

\* Path::join of a single component
join(p, name) == Append(p, name)

\* Path::file_name
file_name_of(p) == IF Len(p) = 0 THEN None ELSE Some(p[Len(p)])

\* p is root or lies below root
IsWithin(p, root) == IsPrefix(root, p)

Dir_r == << "r" >>
Dir_A == << "r", "A" >>
Dir_B == << "r", "B" >>
Dir_C == << "r", "A", "C" >>
Dir_x == << "x" >>
File_f1 == << "r", "f1" >>
File_f2 == << "r", "f2" >>

\* The tree the session is started on: r holds the folders B and A and the
\* files f1 (older, text "abc") and f2 (newer, the single byte 255); A holds
\* the folder C; B and C are empty; no directory x exists.
InitialDisk ==
    [ dirs  |-> { Dir_r, Dir_A, Dir_B, Dir_C },
      files |-> [ p \in { File_f1, File_f2 } |->
                    IF p = File_f1 THEN [ data |-> Str_abc, mtime |-> -2 ]
                    ELSE [ data |-> << 255 >>, mtime |-> -1 ] ] ]

\* Utc::now().to_rfc3339() at clock reading t: the clock reads 0 when the
\* session starts (the files on disk are older) and every call of create_file
\* reads it one tick later, so the default names are fresh
to_rfc3339(t) == NameOrder[t]

is_dir(d, p) == p \in d.dirs
is_file(d, p) == p \in DOMAIN d.files

\* File::create followed by the bytes written: the file at p holds data
WriteFile(d, p, data, now) ==
    [ d EXCEPT !.files =
        [ q \in DOMAIN d.files \cup { p } |->
            IF q = p THEN [ data |-> data, mtime |-> now ] ELSE d.files[q] ] ]

\* std::fs::remove_file
RemoveFile(d, p) ==
    [ d EXCEPT !.files = [ q \in DOMAIN d.files \ { p } |-> d.files[q] ] ]

\* The system calls a handler makes may fail for reasons outside the program
\* (permissions, a full disk): io is the set of calls that fail while one
\* handler runs.
Faults == { {}, {"read_dir"}, {"create"}, {"write"}, {"remove"}, {"read"} }

----------------------------------------------------------------------------
(* ManagerEntity, Respond *)

TextFile(p) == [ kind |-> "TextFile", path |-> p ]
Folder(p) == [ kind |-> "Folder", path |-> p ]
ActionBack == [ kind |-> "Action", act |-> "Back" ]
ActionRoot == [ kind |-> "Action", act |-> "Root" ]

RespondText(t) == [ kind |-> "Text", data |-> t ]
RespondBin(b) == [ kind |-> "Bin", data |-> b ]
RespondNone == [ kind |-> "None" ]

----------------------------------------------------------------------------
(* FileManager *)

\* FileManager::open_dir: the paths of the entries of dir (read_dir yields
\* them in an order of the system's choosing; create_entities sorts them by
\* keys that are distinct here, so the order read does not matter)
open_dir(d, dir, io) ==
    IF "read_dir" \in io \/ ~is_dir(d, dir) THEN Err("Io")
    ELSE Ok({ p \in d.dirs \cup DOMAIN d.files :
                Len(p) = Len(dir) + 1 /\ IsPrefix(dir, p) })

\* sort_by_cached_key on the path, ascending
RECURSIVE sort_folders(_)
sort_folders(S) ==
    IF S = {} THEN << >>
    ELSE LET m == CHOOSE x \in S : \A y \in S \ { x } : PathLess(x, y)
         IN  << Folder(m) >> \o sort_folders(S \ { m })

\* a sort of the files that puts the oldest first
RECURSIVE sort_files_oldest_first(_, _)
sort_files_oldest_first(S, d) ==
    IF S = {} THEN << >>
    ELSE LET m == CHOOSE x \in S :
                    \A y \in S \ { x } : d.files[x].mtime < d.files[y].mtime
         IN  << TextFile(m) >> \o sort_files_oldest_first(S \ { m }, d)

\* sort_by_cached_key on Reverse(modified): newest first
RECURSIVE sort_files(_, _)
sort_files(S, d) ==
    IF S = {} THEN << >>
    ELSE LET m == CHOOSE x \in S :
                    \A y \in S \ { x } : d.files[x].mtime > d.files[y].mtime
         IN  << TextFile(m) >> \o sort_files(S \ { m }, d)

\* a listing that puts the actions first
create_entities_actions_first(files, is_root, d) ==
    (IF is_root THEN << >> ELSE << ActionBack, ActionRoot >>)
    \o sort_folders({ p \in files : is_dir(d, p) })
    \o sort_files({ p \in files : is_file(d, p) }, d)

\* FileManager::create_entities
create_entities(files, is_root, d) ==
    sort_folders({ p \in files : is_dir(d, p) })
    \o sort_files({ p \in files : is_file(d, p) }, d)
    \o (IF is_root THEN << >> ELSE << ActionBack, ActionRoot >>)

\* FileManager::goto_dir
goto_dir(m, d, dir, io) ==
    LET is_root == dir = m.root
        files == open_dir(d, dir, io)
    IN  IF ~files.ok THEN [ m |-> m, res |-> Err(files.err) ]
        ELSE [ m |-> [ m EXCEPT !.entities = create_entities(files.val, is_root, d),
                                !.selected = None,
                                !.current = dir ],
               res |-> Ok("unit") ]

\* FileManager::new
FileManager_new(d, root, io) ==
    LET files == open_dir(d, root, io)
    IN  IF ~files.ok THEN Err(files.err)
        ELSE Ok([ current |-> root,
                  root |-> root,
                  entities |-> create_entities(files.val, TRUE, d),
                  selected |-> None,
                  created_entities |-> << >> ])

\* FileManager::get_selected_entity
get_selected_entity(m) ==
    IF m.selected.some THEN Some(m.entities[m.selected.val + 1]) ELSE None

\* FileManager::get_selected_entity_name
get_selected_entity_name(m) ==
    IF ~m.selected.some THEN None
    ELSE LET e == m.entities[m.selected.val + 1]
         IN  IF e.kind = "Action" THEN None ELSE file_name_of(e.path)

\* a next() that stops at the last entry instead of wrapping
next_no_wrap(m) ==
    IF m.entities # << >>
    THEN [ m EXCEPT !.selected =
             IF m.selected.some
             THEN (IF m.selected.val + 1 < Len(m.entities)
                   THEN Some(m.selected.val + 1) ELSE m.selected)
             ELSE Some(0) ]
    ELSE m

\* FileManager::next
next(m) ==
    IF m.entities # << >>
    THEN [ m EXCEPT !.selected =
             IF m.selected.some
             THEN Some((m.selected.val + 1) % Len(m.entities))
             ELSE Some(0) ]
    ELSE m

\* a previous() that stays on the first entry instead of wrapping
previous_no_wrap(m) ==
    IF m.entities # << >>
    THEN [ m EXCEPT !.selected =
             IF m.selected = Some(0) THEN Some(0)
             ELSE IF m.selected.some THEN Some(m.selected.val - 1)
             ELSE Some(Len(m.entities) - 1) ]
    ELSE m

\* FileManager::previous
previous(m) ==
    IF m.entities # << >>
    THEN [ m EXCEPT !.selected =
             IF m.selected = Some(0) THEN Some(Len(m.entities) - 1)
             ELSE IF m.selected.some THEN Some(m.selected.val - 1)
             ELSE Some(Len(m.entities) - 1) ]
    ELSE m

\* a select that takes the length of the listing for an index
select_up_to_len(m, id) ==
    IF id <= Len(m.entities)
    THEN [ m |-> [ m EXCEPT !.selected = Some(id) ], res |-> TRUE ]
    ELSE [ m |-> m, res |-> FALSE ]

\* FileManager::select
select(m, id) ==
    IF id < Len(m.entities)
    THEN [ m |-> [ m EXCEPT !.selected = Some(id) ], res |-> TRUE ]
    ELSE [ m |-> m, res |-> FALSE ]

\* a refresh that leaves the cursor unset
refresh_no_reselect(m, d, io) ==
    goto_dir(m, d, m.current, io)

\* FileManager::refresh
refresh(m, d, io) ==
    LET selected == m.selected
        g == goto_dir(m, d, m.current, io)
    IN  IF ~g.res.ok THEN g
        ELSE [ m |-> IF selected.some THEN select(g.m, selected.val).m ELSE g.m,
               res |-> Ok("unit") ]

\* a create_file that leaves the listing as it was
create_file_no_refresh(m, d, now, data, file_name, io) ==
    LET name == IF file_name.some THEN file_name.val ELSE to_rfc3339(now)
        file_path == join(m.current, name)
        can_create == /\ "create" \notin io
                      /\ is_dir(d, m.current)
                      /\ ~is_dir(d, file_path)
        d1 == WriteFile(d, file_path, << >>, now)
        d2 == WriteFile(d, file_path, data, now)
        m1 == [ m EXCEPT !.created_entities = Append(@, TextFile(file_path)) ]
    IN  IF ~can_create THEN [ m |-> m, disk |-> d, res |-> Err("Io") ]
        ELSE IF "write" \in io THEN [ m |-> m, disk |-> d1, res |-> Err("Io") ]
        ELSE [ m |-> m1, disk |-> d2, res |-> Ok("unit") ]

\* FileManager::create_file, called at clock reading now
create_file(m, d, now, data, file_name, io) ==
    LET name == IF file_name.some THEN file_name.val ELSE to_rfc3339(now)
        file_path == join(m.current, name)
        can_create == /\ "create" \notin io
                      /\ is_dir(d, m.current)
                      /\ ~is_dir(d, file_path)
        d1 == WriteFile(d, file_path, << >>, now)
        d2 == WriteFile(d, file_path, data, now)
        m1 == [ m EXCEPT !.created_entities = Append(@, TextFile(file_path)) ]
        r == refresh(m1, d2, io)
    IN  IF ~can_create THEN [ m |-> m, disk |-> d, res |-> Err("Io") ]
        ELSE IF "write" \in io THEN [ m |-> m, disk |-> d1, res |-> Err("Io") ]
        ELSE [ m |-> r.m, disk |-> d2, res |-> r.res ]

\* Vec::position of an element
position(s, e) ==
    IF \E i \in 1..Len(s) : s[i] = e
    THEN Some((CHOOSE i \in 1..Len(s) : s[i] = e /\ \A j \in 1..(i - 1) : s[j] # e) - 1)
    ELSE None

\* Vec::remove at a 0-based index
remove_at(s, i) == SubSeq(s, 1, i) \o SubSeq(s, i + 2, Len(s))

\* a delete_selected that removes a file whether it was created or not
delete_selected_ungated(m, d, io) ==
    LET e == m.entities[m.selected.val + 1]
        item == position(m.created_entities, TextFile(e.path))
        can_remove == "remove" \notin io /\ is_file(d, e.path)
        d1 == RemoveFile(d, e.path)
        m1 == [ m EXCEPT !.created_entities = remove_at(@, item.val) ]
        r0 == refresh(m, d, io)
        r1 == refresh(m1, d1, io)
    IN  IF ~m.selected.some THEN [ m |-> r0.m, disk |-> d, res |-> r0.res ]
        ELSE IF e.kind = "Folder"
            THEN [ m |-> m, disk |-> d, res |-> Err("IsFolder") ]
        ELSE IF e.kind = "Action"
            THEN [ m |-> m, disk |-> d, res |-> Err("IsAction") ]
        ELSE IF ~item.some /\ can_remove
            THEN [ m |-> refresh(m, d1, io).m, disk |-> d1,
                   res |-> refresh(m, d1, io).res ]
        ELSE IF ~can_remove THEN [ m |-> m, disk |-> d, res |-> Err("Io") ]
        ELSE [ m |-> r1.m, disk |-> d1, res |-> r1.res ]

\* FileManager::delete_selected
delete_selected(m, d, io) ==
    LET e == m.entities[m.selected.val + 1]
        item == position(m.created_entities, TextFile(e.path))
        can_remove == "remove" \notin io /\ is_file(d, e.path)
        d1 == RemoveFile(d, e.path)
        m1 == [ m EXCEPT !.created_entities = remove_at(@, item.val) ]
        r0 == refresh(m, d, io)
        r1 == refresh(m1, d1, io)
    IN  IF ~m.selected.some THEN [ m |-> r0.m, disk |-> d, res |-> r0.res ]
        ELSE IF e.kind = "Folder"
            THEN [ m |-> m, disk |-> d, res |-> Err("IsFolder") ]
        ELSE IF e.kind = "Action"
            THEN [ m |-> m, disk |-> d, res |-> Err("IsAction") ]
        ELSE IF ~item.some
            THEN [ m |-> m, disk |-> d, res |-> Err("NotCreated") ]
        ELSE IF ~can_remove THEN [ m |-> m, disk |-> d, res |-> Err("Io") ]
        ELSE [ m |-> r1.m, disk |-> d1, res |-> r1.res ]

\* std::fs::read_to_string, with std::fs::read as the fallback
read_file(d, path, io) ==
    IF "read" \in io \/ ~is_file(d, path) THEN Err("Io")
    ELSE IF from_utf8(d.files[path].data).ok
        THEN Ok(RespondText(d.files[path].data))
    ELSE Ok(RespondBin(d.files[path].data))

\* FileManager::action
action(m, d, io) ==
    LET e == m.entities[m.selected.val + 1]
        into == goto_dir(m, d, e.path, io)
        parent_path == parent(m.current)
        back == goto_dir(m, d, parent_path.val, io)
        root == goto_dir(m, d, m.root, io)
        Nav(g) == [ m |-> g.m,
                    res |-> IF g.res.ok THEN Ok(RespondNone) ELSE g.res ]
    IN  IF ~m.selected.some THEN [ m |-> m, res |-> Ok(RespondNone) ]
        ELSE IF e.kind = "TextFile"
            THEN [ m |-> m, res |-> read_file(d, e.path, io) ]
        ELSE IF e.kind = "Folder" THEN Nav(into)
        ELSE IF e.act = "Back"
            THEN (IF parent_path.some THEN Nav(back)
                  ELSE [ m |-> m, res |-> Ok(RespondNone) ])
        ELSE Nav(root)

----------------------------------------------------------------------------
(* Viewer *)

ViewerText(t) == [ kind |-> "Text", data |-> t ]
ViewerDecryptedText(t) == [ kind |-> "DecryptedText", data |-> t ]
ViewerBinary(b) == [ kind |-> "Binary", data |-> b ]

\* the largest u16: the type of Viewer.scroll
U16_MAX == 65535

\* Viewer::new
Viewer_new(key) ==
    IF Len(key) < 5 THEN Err("InvalidKey")
    ELSE Ok([ name |-> None,
              entity |-> ViewerText(Str_empty),
              scroll |-> 0,
              key |-> key ])

\* a set_entity that shows binary content as it is
set_entity_no_decrypt(v, entity, name) ==
    [ v EXCEPT !.name = name, !.scroll = 0, !.entity = entity ]

\* Viewer::set_entity
set_entity(v, entity, name) ==
    LET decrypted == decrypt_binary(entity.data, v.key)
    IN  [ v EXCEPT !.name = name,
                   !.scroll = 0,
                   !.entity = IF entity.kind = "Binary"
                              THEN (IF decrypted.ok
                                    THEN ViewerDecryptedText(decrypted.val)
                                    ELSE ViewerBinary(entity.data))
                              ELSE entity ]

\* Viewer::scroll_up: checked_sub, and the old value when it underflows
scroll_up(v, value) ==
    [ v EXCEPT !.scroll = IF v.scroll - value < 0 THEN v.scroll
                          ELSE v.scroll - value ]

\* Viewer::scroll_down: checked_add, and the old value when it overflows
scroll_down(v, value) ==
    [ v EXCEPT !.scroll = IF v.scroll + value > U16_MAX THEN v.scroll
                          ELSE v.scroll + value ]

\* Viewer::clear
clear(v) ==
    [ v EXCEPT !.name = None, !.entity = ViewerText(Str_empty), !.scroll = 0 ]

----------------------------------------------------------------------------
(* Editor.  A TextArea is the sequence of its lines; the cursor stays at   *)
(* the end of the text, where the keys modelled insert.                    *)

\* TextArea::default
TextArea_default == << Str_empty >>

\* Vec<String>::join("\n") of TextArea::into_lines
RECURSIVE join_lines(_)
join_lines(lines) ==
    IF Len(lines) = 0 THEN Str_empty
    ELSE IF Len(lines) = 1 THEN lines[1]
    ELSE lines[1] \o << 10 >> \o join_lines(Tail(lines))

\* TextArea::input: a character goes to the end of the last line, Enter
\* opens a new line, the other keys modelled leave the text as it is
textarea_input(lines, key) ==
    IF key.code = "Char" /\ ~key.ctrl
    THEN [ lines EXCEPT ![Len(lines)] = @ \o key.ch ]
    ELSE IF key.code = "Enter" THEN Append(lines, Str_empty)
    ELSE lines

\* Editor::new
Editor_new(key) == [ textarea |-> None, key |-> key ]

\* Editor::init
init(ed) == [ ed EXCEPT !.textarea = Some(TextArea_default) ]

\* a finish that reads the buffer and leaves it in the editor
finish_keeps_buffer(ed) ==
    [ editor |-> ed,
      res |-> IF ed.textarea.some THEN Ok(join_lines(ed.textarea.val))
              ELSE Ok(Str_empty) ]

\* Editor::finish
finish(ed) ==
    [ editor |-> [ ed EXCEPT !.textarea = None ],
      res |-> IF ed.textarea.some THEN Ok(join_lines(ed.textarea.val))
              ELSE Ok(Str_empty) ]

\* Editor::finish_encrypt
finish_encrypt(ed) ==
    [ editor |-> [ ed EXCEPT !.textarea = None ],
      res |-> IF ed.textarea.some
              THEN Ok(encrypt_string(join_lines(ed.textarea.val), ed.key))
              ELSE Ok(<< >>) ]

----------------------------------------------------------------------------
(* Key events *)

Key(code, ch, ctrl) == [ code |-> code, ch |-> ch, ctrl |-> ctrl ]

KeyEsc == Key("Esc", << >>, FALSE)
KeyUp == Key("Up", << >>, FALSE)
KeyDown == Key("Down", << >>, FALSE)
KeyEnter == Key("Enter", << >>, FALSE)
KeyTab == Key("Tab", << >>, FALSE)
KeyChar(c) == Key("Char", c, FALSE)
KeyCtrl(c) == Key("Char", c, TRUE)

Ch_c == << 99 >>
Ch_d == << 100 >>
Ch_e == << 101 >>
Ch_n == << 110 >>
Ch_r == << 114 >>
Ch_s == << 115 >>
Ch_t == << 116 >>
Ch_E == << 69 >>
Ch_S == << 83 >>

\* KeyCode::Char(a) | KeyCode::Char(b)
IsChar(key, a, b) == key.code = "Char" /\ key.ch \in { a, b }

----------------------------------------------------------------------------
(* update: one key event handled in mode md at clock reading now.  It      *)
(* yields the Result<Mode> and the manager, viewer, editor and disk left.  *)

Updated(res, m, v, ed, d) ==
    [ res |-> res, manager |-> m, viewer |-> v, editor |-> ed, disk |-> d ]

\* a manager in which the open-editor key starts a new buffer
update_Manager_open_inits(key, m, v, ed, d, io) ==
    LET a == action(m, d, io)
        del == delete_selected(m, d, io)
    IN  IF key.code = "Esc" THEN Updated(Ok("Exit"), m, v, ed, d)
        ELSE IF key.code = "Up" THEN Updated(Ok("Manager"), previous(m), v, ed, d)
        ELSE IF key.code = "Down" THEN Updated(Ok("Manager"), next(m), v, ed, d)
        ELSE IF key.code = "Enter"
            THEN (IF ~a.res.ok THEN Updated(a.res, a.m, v, ed, d)
                  ELSE IF a.res.val.kind = "Text"
                      THEN Updated(Ok("Viewer"), a.m,
                                   set_entity(v, ViewerText(a.res.val.data),
                                              get_selected_entity_name(a.m)),
                                   ed, d)
                  ELSE IF a.res.val.kind = "Bin"
                      THEN Updated(Ok("Viewer"), a.m,
                                   set_entity(v, ViewerBinary(a.res.val.data),
                                              get_selected_entity_name(a.m)),
                                   ed, d)
                  ELSE Updated(Ok("Manager"), a.m, v, ed, d))
        ELSE IF IsChar(key, Ch_e, Ch_E)
            THEN Updated(Ok("Editor"), m, v, init(ed), d)
        ELSE IF IsChar(key, Ch_n, << 78 >>)
            THEN Updated(Ok("Editor"), m, v, init(ed), d)
        ELSE IF IsChar(key, Ch_d, << 68 >>)
            THEN Updated((IF del.res.ok THEN Ok("Manager") ELSE del.res),
                         del.m, v, ed, del.disk)
        ELSE Updated(Ok("Manager"), m, v, ed, d)

update_Manager(key, m, v, ed, d, io) ==
    LET a == action(m, d, io)
        del == delete_selected(m, d, io)
    IN  IF key.code = "Esc" THEN Updated(Ok("Exit"), m, v, ed, d)
        ELSE IF key.code = "Up" THEN Updated(Ok("Manager"), previous(m), v, ed, d)
        ELSE IF key.code = "Down" THEN Updated(Ok("Manager"), next(m), v, ed, d)
        ELSE IF key.code = "Enter"
            THEN (IF ~a.res.ok THEN Updated(a.res, a.m, v, ed, d)
                  ELSE IF a.res.val.kind = "Text"
                      THEN Updated(Ok("Viewer"), a.m,
                                   set_entity(v, ViewerText(a.res.val.data),
                                              get_selected_entity_name(a.m)),
                                   ed, d)
                  ELSE IF a.res.val.kind = "Bin"
                      THEN Updated(Ok("Viewer"), a.m,
                                   set_entity(v, ViewerBinary(a.res.val.data),
                                              get_selected_entity_name(a.m)),
                                   ed, d)
                  ELSE Updated(Ok("Manager"), a.m, v, ed, d))
        ELSE IF IsChar(key, Ch_e, Ch_E) THEN Updated(Ok("Editor"), m, v, ed, d)
        ELSE IF IsChar(key, Ch_n, << 78 >>)
            THEN Updated(Ok("Editor"), m, v, init(ed), d)
        ELSE IF IsChar(key, Ch_d, << 68 >>)
            THEN Updated((IF del.res.ok THEN Ok("Manager") ELSE del.res),
                         del.m, v, ed, del.disk)
        ELSE Updated(Ok("Manager"), m, v, ed, d)

\* a viewer in which the quit key ends the session
update_Viewer_esc_exits(key, m, v, ed, d) ==
    IF key.code = "Up" THEN Updated(Ok("Viewer"), m, scroll_up(v, 1), ed, d)
    ELSE IF key.code = "Down" THEN Updated(Ok("Viewer"), m, scroll_down(v, 1), ed, d)
    ELSE IF key.code = "Esc" THEN Updated(Ok("Exit"), m, clear(v), ed, d)
    ELSE Updated(Ok("Manager"), m, clear(v), ed, d)

\* a viewer that is left with its content in place
update_Viewer_no_clear(key, m, v, ed, d) ==
    IF key.code = "Up" THEN Updated(Ok("Viewer"), m, scroll_up(v, 1), ed, d)
    ELSE IF key.code = "Down" THEN Updated(Ok("Viewer"), m, scroll_down(v, 1), ed, d)
    ELSE Updated(Ok("Manager"), m, v, ed, d)

update_Viewer(key, m, v, ed, d) ==
    IF key.code = "Up" THEN Updated(Ok("Viewer"), m, scroll_up(v, 1), ed, d)
    ELSE IF key.code = "Down" THEN Updated(Ok("Viewer"), m, scroll_down(v, 1), ed, d)
    ELSE Updated(Ok("Manager"), m, clear(v), ed, d)

\* an editor in which the quit key takes the buffer
update_Editor_esc_takes(key, m, v, ed, d, now, io) ==
    LET f == finish(ed)
        cf == create_file(m, d, now, f.res.val, None, io)
        fe == finish_encrypt(ed)
        ce == create_file(m, d, now, fe.res.val, None, io)
    IN  IF key.code = "Esc" THEN Updated(Ok("Manager"), m, v, f.editor, d)
        ELSE IF IsChar(key, Ch_s, Ch_S) /\ key.ctrl
            THEN Updated((IF cf.res.ok THEN Ok("Manager") ELSE cf.res),
                         cf.m, v, f.editor, cf.disk)
        ELSE IF IsChar(key, Ch_e, Ch_E) /\ key.ctrl
            THEN Updated((IF ce.res.ok THEN Ok("Manager") ELSE ce.res),
                         ce.m, v, fe.editor, ce.disk)
        ELSE Updated(Ok("Editor"), m, v,
                     (IF ed.textarea.some
                      THEN [ ed EXCEPT !.textarea =
                               Some(textarea_input(ed.textarea.val, key)) ]
                      ELSE ed),
                     d)

\* an editor that gets its buffer back when the file cannot be created
update_Editor_failure_restores(key, m, v, ed, d, now, io) ==
    LET f == finish(ed)
        cf == create_file(m, d, now, f.res.val, None, io)
        fe == finish_encrypt(ed)
        ce == create_file(m, d, now, fe.res.val, None, io)
    IN  IF key.code = "Esc" THEN Updated(Ok("Manager"), m, v, ed, d)
        ELSE IF IsChar(key, Ch_s, Ch_S) /\ key.ctrl
            THEN Updated((IF cf.res.ok THEN Ok("Manager") ELSE cf.res),
                         cf.m, v,
                         (IF cf.res.ok THEN f.editor ELSE ed), cf.disk)
        ELSE IF IsChar(key, Ch_e, Ch_E) /\ key.ctrl
            THEN Updated((IF ce.res.ok THEN Ok("Manager") ELSE ce.res),
                         ce.m, v,
                         (IF ce.res.ok THEN fe.editor ELSE ed), ce.disk)
        ELSE Updated(Ok("Editor"), m, v,
                     (IF ed.textarea.some
                      THEN [ ed EXCEPT !.textarea =
                               Some(textarea_input(ed.textarea.val, key)) ]
                      ELSE ed),
                     d)

\* an editor that hands the quit key to its buffer like any other key
update_Editor_esc_typed(key, m, v, ed, d, now, io) ==
    LET f == finish(ed)
        cf == create_file(m, d, now, f.res.val, None, io)
        fe == finish_encrypt(ed)
        ce == create_file(m, d, now, fe.res.val, None, io)
    IN  IF IsChar(key, Ch_s, Ch_S) /\ key.ctrl
            THEN Updated((IF cf.res.ok THEN Ok("Manager") ELSE cf.res),
                         cf.m, v, f.editor, cf.disk)
        ELSE IF IsChar(key, Ch_e, Ch_E) /\ key.ctrl
            THEN Updated((IF ce.res.ok THEN Ok("Manager") ELSE ce.res),
                         ce.m, v, fe.editor, ce.disk)
        ELSE Updated(Ok("Editor"), m, v,
                     (IF ed.textarea.some
                      THEN [ ed EXCEPT !.textarea =
                               Some(textarea_input(ed.textarea.val, key)) ]
                      ELSE ed),
                     d)

update_Editor(key, m, v, ed, d, now, io) ==
    LET f == finish(ed)
        cf == create_file(m, d, now, f.res.val, None, io)
        fe == finish_encrypt(ed)
        ce == create_file(m, d, now, fe.res.val, None, io)
    IN  IF key.code = "Esc" THEN Updated(Ok("Manager"), m, v, ed, d)
        ELSE IF IsChar(key, Ch_s, Ch_S) /\ key.ctrl
            THEN Updated((IF cf.res.ok THEN Ok("Manager") ELSE cf.res),
                         cf.m, v, f.editor, cf.disk)
        ELSE IF IsChar(key, Ch_e, Ch_E) /\ key.ctrl
            THEN Updated((IF ce.res.ok THEN Ok("Manager") ELSE ce.res),
                         ce.m, v, fe.editor, ce.disk)
        ELSE Updated(Ok("Editor"), m, v,
                     (IF ed.textarea.some
                      THEN [ ed EXCEPT !.textarea =
                               Some(textarea_input(ed.textarea.val, key)) ]
                      ELSE ed),
                     d)

update(key, md, m, v, ed, d, now, io) ==
    IF md = "Manager" THEN update_Manager(key, m, v, ed, d, io)
    ELSE IF md = "Viewer" THEN update_Viewer(key, m, v, ed, d)
    ELSE IF md = "Editor" THEN update_Editor(key, m, v, ed, d, now, io)
    ELSE Updated(Ok("Exit"), m, v, ed, d)

\* update calls create_file, which reads the clock, for these keys only
CallsCreateFile(key, md) ==
    md = "Editor" /\ key.ctrl /\ (IsChar(key, Ch_s, Ch_S) \/ IsChar(key, Ch_e, Ch_E))

----------------------------------------------------------------------------
(* run_session and main *)

\* a loop that falls back to the manager when a handler fails
run_session_match_to_manager(res, md, st) ==
    IF res.ok THEN [ mode |-> res.val, status |-> "Ok" ]
    ELSE [ mode |-> "Manager", status |-> res.err ]

\* what run_session's loop does with the Result of update (the match on it)
run_session_match(res, md, st) ==
    IF res.ok THEN [ mode |-> res.val, status |-> "Ok" ]
    ELSE [ mode |-> md, status |-> res.err ]

\* the manager, viewer and editor of a session that could not be set up
NotBuilt == [ built |-> FALSE ]
Built(x) == "built" \notin DOMAIN x

\* the directories a session is started on, and the passwords typed
Roots == { Dir_r, Dir_B, Dir_x }
Passwords == { Str_abcde, Str_abc }

\* the texts the user composes in the editor, key by key
Texts == { Str_secret }
Composing(t) == \E full \in Texts : IsPrefix(t, full)

\* the key events the terminal delivers
Keys ==
    { KeyEsc, KeyUp, KeyDown, KeyEnter, KeyTab }
    \cup { KeyChar(c) : c \in { Ch_c, Ch_d, Ch_e, Ch_n, Ch_r, Ch_s, Ch_t, Str_eacute } }
    \cup { KeyCtrl(c) : c \in { Ch_s, Ch_e } }

\* The keys pressed in the model: in the editor the user types on towards
\* one of Texts and leaves the editor (quit or save) with a finished text or
\* an empty buffer; create_file is reached at most MaxClock times, the
\* viewer scrolled down to MaxScroll.
KeyPressed(key) ==
    /\ (mode = "Editor" /\ editor.textarea.some) =>
          LET t == join_lines(editor.textarea.val)
              t1 == join_lines(textarea_input(editor.textarea.val, key))
          IN  IF CallsCreateFile(key, mode) \/ key.code = "Esc"
              THEN t \in Texts \cup { Str_empty }
              ELSE Composing(t1)
    /\ CallsCreateFile(key, mode) => clock < MaxClock
    /\ (mode = "Viewer" /\ key.code = "Down") => viewer.scroll < MaxScroll

\* run_session up to its loop, on the root and key main passes
SessionInit(root, key) ==
    LET fm == FileManager_new(InitialDisk, root, {})
        vw == Viewer_new(key)
        ok == fm.ok /\ vw.ok
    IN  /\ pc = IF ok THEN "loop" ELSE "shutdown"
        /\ result = IF ok THEN "none" ELSE "Err"
        /\ manager = IF ok THEN fm.val ELSE NotBuilt
        /\ viewer = IF ok THEN vw.val ELSE NotBuilt
        /\ editor = IF ok THEN Editor_new(key) ELSE NotBuilt
        /\ mode = "Manager"
        /\ status = "Ok"

NoCipher == [ key |-> << >>, text |-> << >>, chars |-> 0, out |-> None ]

NoCall == [ op |-> "none" ]
Call(op, res) == [ op |-> op, res |-> res ]

\* main panics before run_session is called (an expect on the password or
\* on the set-up of the terminal fails): the process ends with the status of
\* a panic, 101, and the panic's message
SetupPanics ==
    /\ pc = "done"
    /\ result = "none"
    /\ output = "Panic"
    /\ exit_code = 101
    /\ manager = NotBuilt
    /\ viewer = NotBuilt
    /\ editor = NotBuilt
    /\ mode = "Manager"
    /\ status = "Ok"

Init ==
    /\ \/ /\ \E root \in Roots, key \in Passwords : SessionInit(root, key)
          /\ output = "none"
          /\ exit_code = -1
       \/ SetupPanics
    /\ disk = InitialDisk
    /\ clock = 0
    /\ last_call = NoCall
    /\ next_run = 0
    /\ cipher = NoCipher

\* the branch of update that handles key in mode md, as last_call names it
Branch(key, md) ==
    IF CallsCreateFile(key, md)
    THEN (IF IsChar(key, Ch_s, Ch_S) THEN "save" ELSE "encrypt_save")
    ELSE IF md = "Viewer" /\ key.code \notin { "Up", "Down" } THEN "dismiss"
    ELSE IF md = "Manager" /\ IsChar(key, Ch_e, Ch_E) THEN "open_editor"
    ELSE "update"

\* the system calls the handler of a key event can reach
Reaches(key, md) ==
    IF md = "Manager" /\ key.code = "Enter" THEN { "read", "read_dir" }
    ELSE IF md = "Manager" /\ IsChar(key, Ch_d, << 68 >>) THEN { "remove", "read_dir" }
    ELSE IF CallsCreateFile(key, md) THEN { "create", "write", "read_dir" }
    ELSE {}

\* One turn of run_session's loop in which read() yields a key event: the
\* event is handled by update, and the loop is left when the mode is Exit
\* (manager, viewer and editor are locals of run_session and go with it).
HandleKey ==
    /\ pc = "loop"
    /\ \E key \in Keys, io \in Faults :
        /\ KeyPressed(key)
        /\ io \subseteq Reaches(key, mode)
        /\ LET now == clock + 1
               u == update(key, mode, manager, viewer, editor, disk, now, io)
               r == run_session_match(u.res, mode, status)
           IN  /\ manager' = IF r.mode = "Exit" THEN NotBuilt ELSE u.manager
               /\ viewer' = IF r.mode = "Exit" THEN NotBuilt ELSE u.viewer
               /\ editor' = IF r.mode = "Exit" THEN NotBuilt ELSE u.editor
               /\ disk' = u.disk
               /\ clock' = IF CallsCreateFile(key, mode) THEN now ELSE clock
               /\ mode' = r.mode
               /\ status' = r.status
               /\ last_call' = Call(Branch(key, mode), u.res)
               /\ pc' = IF r.mode = "Exit" THEN "shutdown" ELSE "loop"
               /\ result' = IF r.mode = "Exit" THEN "Ok" ELSE result
    /\ UNCHANGED << output, exit_code, next_run, cipher >>

\* A turn of the loop in which read() yields an event that is no key event
\* (a resize, the mouse): nothing is handled.
OtherEvent ==
    /\ pc = "loop"
    /\ UNCHANGED vars

\* terminal.draw or read() fails: run_session returns the error.
TerminalFails ==
    /\ pc = "loop"
    /\ pc' = "shutdown"
    /\ result' = "Err"
    /\ manager' = NotBuilt
    /\ viewer' = NotBuilt
    /\ editor' = NotBuilt
    /\ UNCHANGED << output, exit_code, disk, clock, mode, status, last_call,
                    next_run, cipher >>

\* main after run_session: the message is printed and main returns.
MainEnd ==
    /\ pc = "shutdown"
    /\ pc' = "done"
    /\ output' = IF result = "Ok" THEN "End" ELSE "Error"
    /\ exit_code' = 0
    /\ UNCHANGED << result, disk, clock, manager, viewer, editor, mode, status,
                    last_call, next_run, cipher >>

Next == HandleKey \/ OtherEvent \/ TerminalFails \/ MainEnd

Spec == Init /\ [][Next]_vars

----------------------------------------------------------------------------
(* The FileManager driven through its public methods, every argument and   *)
(* every failure of a system call being possible.                          *)

\* the roots a FileManager is built on
ManagerRoots == { Dir_r, Dir_A, Dir_B }

\* the contents handed to create_file: a text and bytes that are no text
FileData == { Str_abc, << 255 >> }

\* the names handed to create_file: none (the default name), or the name f1
FileNames == { None, Some("f1") }

\* next_run after a call that left the manager as m2: the cursor unset
\* starts a run of next() calls, a next() on a set cursor goes on with it
\* (up to one call past the length of the listing), anything else ends it
NextRun(m2, is_next) ==
    IF ~m2.selected.some THEN 0
    ELSE IF is_next /\ next_run >= 0 /\ next_run <= Len(m2.entities)
        THEN next_run + 1
    ELSE -1

InitFM ==
    /\ pc = "api"
    /\ \E root \in ManagerRoots :
          manager = FileManager_new(InitialDisk, root, {}).val
    /\ viewer = NotBuilt
    /\ editor = NotBuilt
    /\ mode = "Manager"
    /\ status = "Ok"
    /\ result = "none"
    /\ output = "none"
    /\ exit_code = -1
    /\ disk = InitialDisk
    /\ clock = 0
    /\ last_call = NoCall
    /\ next_run = 0
    /\ cipher = NoCipher

FMUnchanged ==
    UNCHANGED << pc, result, output, exit_code, viewer, editor, mode, status,
                 cipher >>

FM_next ==
    /\ pc = "api"
    /\ manager' = next(manager)
    /\ next_run' = NextRun(manager', TRUE)
    /\ last_call' = Call("next", Ok("unit"))
    /\ UNCHANGED << disk, clock >>
    /\ FMUnchanged

FM_previous ==
    /\ pc = "api"
    /\ manager' = previous(manager)
    /\ next_run' = NextRun(manager', FALSE)
    /\ last_call' = Call("previous", Ok("unit"))
    /\ UNCHANGED << disk, clock >>
    /\ FMUnchanged

FM_select ==
    /\ pc = "api"
    /\ \E id \in 0..(Len(manager.entities) + 1) :
        LET r == select(manager, id)
        IN  /\ manager' = r.m
            /\ last_call' = Call("select", Ok(r.res))
    /\ next_run' = NextRun(manager', FALSE)
    /\ UNCHANGED << disk, clock >>
    /\ FMUnchanged

FM_refresh ==
    /\ pc = "api"
    /\ \E io \in Faults :
        /\ io \subseteq { "read_dir" }
        /\ LET r == refresh(manager, disk, io)
           IN  /\ manager' = r.m
               /\ last_call' = Call("refresh", r.res)
    /\ next_run' = NextRun(manager', FALSE)
    /\ UNCHANGED << disk, clock >>
    /\ FMUnchanged

FM_create_file ==
    /\ pc = "api"
    /\ clock < MaxClock
    /\ \E data \in FileData, file_name \in FileNames, io \in Faults :
        /\ io \subseteq { "create", "write", "read_dir" }
        /\ LET r == create_file(manager, disk, clock + 1, data, file_name, io)
           IN  /\ manager' = r.m
               /\ disk' = r.disk
               /\ last_call' = Call("create_file", r.res)
    /\ clock' = clock + 1
    /\ next_run' = NextRun(manager', FALSE)
    /\ FMUnchanged

FM_delete_selected ==
    /\ pc = "api"
    /\ \E io \in Faults :
        /\ io \subseteq { "remove", "read_dir" }
        /\ LET r == delete_selected(manager, disk, io)
           IN  /\ manager' = r.m
               /\ disk' = r.disk
               /\ last_call' = Call("delete_selected", r.res)
    /\ next_run' = NextRun(manager', FALSE)
    /\ UNCHANGED clock
    /\ FMUnchanged

FM_action ==
    /\ pc = "api"
    /\ \E io \in Faults :
        /\ io \subseteq { "read", "read_dir" }
        /\ LET r == action(manager, disk, io)
           IN  /\ manager' = r.m
               /\ last_call' = Call("action", r.res)
    /\ next_run' = NextRun(manager', FALSE)
    /\ UNCHANGED << disk, clock >>
    /\ FMUnchanged

NextFM ==
    \/ FM_next
    \/ FM_previous
    \/ FM_select
    \/ FM_refresh
    \/ FM_create_file
    \/ FM_delete_selected
    \/ FM_action

SpecFM == InitFM /\ [][NextFM]_vars

----------------------------------------------------------------------------
(* The cipher applied to a text under a key: the text is put together      *)
(* character by character, then encrypted as Editor::finish_encrypt does   *)
(* and decrypted as Viewer::set_entity does.                               *)

\* keys of five bytes and of more, low bytes and high: "abcde", three
\* e acute, and "\u{1}\u{7f}" with the euro sign and "z"
CipherKeys == { Str_abcde,
                << 195, 169, 195, 169, 195, 169 >>,
                << 1, 127, 226, 130, 172, 122 >> }

\* characters of one, two and four bytes: NUL, "a", e acute, U+10FFFF
CipherChars == { << 0 >>, << 97 >>, Str_eacute, << 244, 143, 191, 191 >> }

InitCipher ==
    /\ pc = "cipher"
    /\ \E key \in CipherKeys :
          cipher = [ key |-> key, text |-> Str_empty, chars |-> 0, out |-> None ]
    /\ manager = NotBuilt
    /\ viewer = NotBuilt
    /\ editor = NotBuilt
    /\ mode = "Manager"
    /\ status = "Ok"
    /\ result = "none"
    /\ output = "none"
    /\ exit_code = -1
    /\ disk = InitialDisk
    /\ clock = 0
    /\ last_call = NoCall
    /\ next_run = 0

CipherUnchanged ==
    UNCHANGED << pc, result, output, exit_code, disk, clock, manager, viewer,
                 editor, mode, status, last_call, next_run >>

CipherType ==
    /\ pc = "cipher"
    /\ cipher.chars < MaxChars
    /\ \E ch \in CipherChars :
          cipher' = [ cipher EXCEPT !.text = @ \o ch,
                                    !.chars = @ + 1,
                                    !.out = None ]
    /\ CipherUnchanged

CipherApply ==
    /\ pc = "cipher"
    /\ LET enc == encrypt_string(cipher.text, cipher.key)
       IN  cipher' = [ cipher EXCEPT !.out =
                         Some([ enc |-> enc,
                                dec |-> decrypt_binary(enc, cipher.key) ]) ]
    /\ CipherUnchanged

NextCipher == CipherType \/ CipherApply

SpecCipher == InitCipher /\ [][NextCipher]_vars

----------------------------------------------------------------------------
(* The Editor driven through its public methods: new, init, the keys that  *)
(* get_textarea_mut().input(key) receives, finish and finish_encrypt, in   *)
(* any order.                                                              *)

\* the keys an Editor is built with
EditorKeys == { Str_abcde, << 195, 169, 195, 169, 195, 169 >> }

\* the keys typed into the TextArea
EditorInputs == { KeyChar(Ch_s), KeyChar(Ch_e), KeyChar(Str_eacute), KeyEnter }

\* the keys a TextArea has taken: its characters and its line breaks
Typed(lines) == Len(lines) - 1 + Len(join_lines(lines))

\* a call of finish or finish_encrypt as last_call holds it: what it
\* returned, and run, the calls of the two made in a row up to this one
\* (2 standing for two or more)
Finishes == { "finish", "finish_encrypt" }
FinishCall(op, res) ==
    [ op |-> op, res |-> res,
      run |-> IF last_call.op \in Finishes THEN 2 ELSE 1 ]

InitEditor ==
    /\ pc = "editor"
    /\ \E key \in EditorKeys : editor = Editor_new(key)
    /\ manager = NotBuilt
    /\ viewer = NotBuilt
    /\ mode = "Manager"
    /\ status = "Ok"
    /\ result = "none"
    /\ output = "none"
    /\ exit_code = -1
    /\ disk = InitialDisk
    /\ clock = 0
    /\ last_call = NoCall
    /\ next_run = 0
    /\ cipher = NoCipher

EditorUnchanged ==
    UNCHANGED << pc, result, output, exit_code, disk, clock, manager, viewer,
                 mode, status, next_run, cipher >>

Ed_init ==
    /\ pc = "editor"
    /\ editor' = init(editor)
    /\ last_call' = Call("init", Ok("unit"))
    /\ EditorUnchanged

Ed_input ==
    /\ pc = "editor"
    /\ editor.textarea.some
    /\ Typed(editor.textarea.val) < MaxChars
    /\ \E key \in EditorInputs :
          editor' = [ editor EXCEPT !.textarea =
                        Some(textarea_input(editor.textarea.val, key)) ]
    /\ last_call' = Call("input", Ok("unit"))
    /\ EditorUnchanged

Ed_finish ==
    /\ pc = "editor"
    /\ LET r == finish(editor)
       IN  /\ editor' = r.editor
           /\ last_call' = FinishCall("finish", r.res)
    /\ EditorUnchanged

Ed_finish_encrypt ==
    /\ pc = "editor"
    /\ LET r == finish_encrypt(editor)
       IN  /\ editor' = r.editor
           /\ last_call' = FinishCall("finish_encrypt", r.res)
    /\ EditorUnchanged

NextEditor ==
    \/ Ed_init
    \/ Ed_input
    \/ Ed_finish
    \/ Ed_finish_encrypt

SpecEditor == InitEditor /\ [][NextEditor]_vars

----------------------------------------------------------------------------
(* The Viewer driven through its public methods: new, set_entity,          *)
(* scroll_up, scroll_down and clear, in any order.                         *)

\* the keys a Viewer is built with
ViewerKeys == { Str_abcde, << 195, 169, 195, 169, 195, 169 >> }

\* the contents handed to set_entity: a text, bytes that decrypt to a text
\* under "abcde" ("secret" encrypted), and bytes that do not
ViewerEntities ==
    { ViewerText(Str_abc),
      ViewerBinary(<< 212, 199, 198, 214, 202, 213 >>),
      ViewerBinary(<< 255 >>) }

\* the names handed to set_entity
ViewerNames == { None, Some("f1") }

\* the amounts handed to scroll_up and scroll_down: nothing, one line (as
\* update does), two lines, and the largest u16
ScrollAmounts == { 0, 1, 2, U16_MAX }

\* the offsets from which the model scrolls on: those near 0 and those
\* near the largest u16
NearZero(s) == s < MaxScroll
NearMax(s) == s > U16_MAX - MaxScroll

\* a call of scroll_up or scroll_down as last_call holds it
ScrollCall(op, value) == [ op |-> op, value |-> value, res |-> Ok("unit") ]

InitViewer ==
    /\ pc = "viewer"
    /\ \E key \in ViewerKeys : viewer = Viewer_new(key).val
    /\ manager = NotBuilt
    /\ editor = NotBuilt
    /\ mode = "Manager"
    /\ status = "Ok"
    /\ result = "none"
    /\ output = "none"
    /\ exit_code = -1
    /\ disk = InitialDisk
    /\ clock = 0
    /\ last_call = NoCall
    /\ next_run = 0
    /\ cipher = NoCipher

ViewerUnchanged ==
    UNCHANGED << pc, result, output, exit_code, disk, clock, manager, editor,
                 mode, status, next_run, cipher >>

Vw_set_entity ==
    /\ pc = "viewer"
    /\ \E entity \in ViewerEntities, name \in ViewerNames :
          viewer' = set_entity(viewer, entity, name)
    /\ last_call' = Call("set_entity", Ok("unit"))
    /\ ViewerUnchanged

Vw_scroll_up ==
    /\ pc = "viewer"
    /\ NearZero(viewer.scroll) \/ NearMax(viewer.scroll)
    /\ \E value \in ScrollAmounts :
          /\ viewer' = scroll_up(viewer, value)
          /\ last_call' = ScrollCall("scroll_up", value)
    /\ ViewerUnchanged

Vw_scroll_down ==
    /\ pc = "viewer"
    /\ NearZero(viewer.scroll) \/ NearMax(viewer.scroll)
    /\ \E value \in ScrollAmounts :
          /\ viewer' = scroll_down(viewer, value)
          /\ last_call' = ScrollCall("scroll_down", value)
    /\ ViewerUnchanged

Vw_clear ==
    /\ pc = "viewer"
    /\ viewer' = clear(viewer)
    /\ last_call' = Call("clear", Ok("unit"))
    /\ ViewerUnchanged

NextViewer ==
    \/ Vw_set_entity
    \/ Vw_scroll_up
    \/ Vw_scroll_down
    \/ Vw_clear

SpecViewer == InitViewer /\ [][NextViewer]_vars

----------------------------------------------------------------------------
(* The claims *)

\* the entity under the cursor (the cursor being set)
Sel(m) == m.entities[m.selected.val + 1]

\* the members of a sequence
Members(q) == { q[i] : i \in 1..Len(q) }

\* C1: for every key event handled in the loop: when update fails (action,
\* delete_selected or create_file returned an error) the mode after the event
\* is the mode before it and the status holds the error; when update
\* succeeds the status is cleared.  No other step changes the mode or the
\* status, so an error is held until a key event succeeds.
C1_FailureKeepsMode ==
    [][ IF HandleKey
        THEN LET res == last_call'.res
             IN  /\ ~res.ok => /\ mode' = mode
                               /\ status' = res.err
                               /\ status' \in { "Io", "IsFolder", "IsAction",
                                                "NotCreated" }
                 /\ res.ok => status' = "Ok"
        ELSE UNCHANGED << mode, status >> ]_vars

\* a save failed in the editor: the session is still in the editor, the
\* error is held
C1_Witness ==
    /\ pc = "loop"
    /\ mode = "Editor"
    /\ status = "Io"
    /\ last_call = Call("save", Err("Io"))

\* the modes that may follow a mode
Allowed(md) ==
    IF md = "Manager" THEN { "Manager", "Viewer", "Editor", "Exit" }
    ELSE IF md = "Viewer" THEN { "Viewer", "Manager" }
    ELSE IF md = "Editor" THEN { "Editor", "Manager" }
    ELSE { "Exit" }

\* C2: the mode starts as Manager and every step keeps to the transition
\* table; no key handled outside the Manager mode, and no key but the quit
\* key, makes update answer Exit.
C2_ModeTransitions ==
    /\ mode = "Manager"
    /\ [][ mode' \in Allowed(mode) ]_vars
    /\ [](pc = "loop" =>
            \A key \in Keys, io \in Faults :
                update(key, mode, manager, viewer, editor, disk, clock + 1, io).res
                    = Ok("Exit")
                => mode = "Manager" /\ key = KeyEsc)

\* the session was quit from the manager after a file had been saved
C2_Witness ==
    /\ pc = "done"
    /\ mode = "Exit"
    /\ result = "Ok"
    /\ clock = MaxClock
    /\ last_call = Call("update", Ok("Exit"))

\* the files of the tree the session started on
PreExisting == DOMAIN InitialDisk.files

\* C3 (as claimed): no folder ever leaves the disk; a file leaves the disk
\* only by delete_selected on the selected file, which was written by
\* create_file and not there before, and leaves the created collection with
\* it; delete_selected on a selected file that was there before the session
\* fails.
C3_DeletionGating ==
    [][ pc = "api" =>
          /\ disk'.dirs = disk.dirs
          /\ \A p \in DOMAIN disk.files \ DOMAIN disk'.files :
                /\ last_call'.op = "delete_selected"
                /\ manager.selected.some /\ Sel(manager) = TextFile(p)
                /\ p \notin PreExisting
                /\ TextFile(p) \in Members(manager.created_entities)
                /\ TextFile(p) \notin Members(manager'.created_entities)
          /\ ( /\ last_call'.op = "delete_selected"
               /\ manager.selected.some
               /\ Sel(manager).kind = "TextFile"
               /\ Sel(manager).path \in PreExisting )
             => ~last_call'.res.ok ]_vars

\* C4: for a key of five bytes or more and a text b, encrypt_string yields
\* o[i] = (b[i] + k[i mod 5]) mod 256, and decrypt_binary of that yields b
\* again, byte by byte (o[i] - k[i mod 5]) mod 256.
C4_CipherRoundTrip ==
    (pc = "cipher" /\ cipher.out.some) =>
        LET b == cipher.text
            k == cipher.key
            enc == cipher.out.val.enc
            dec == cipher.out.val.dec
        IN  /\ Len(k) >= 5
            /\ Len(enc) = Len(b)
            /\ \A i \in 1..Len(b) : enc[i] = (b[i] + k[((i - 1) % 5) + 1]) % 256
            /\ dec.ok
            /\ dec.val = b
            /\ \A i \in 1..Len(b) : dec.val[i] = (enc[i] - k[((i - 1) % 5) + 1]) % 256

\* a text of more than five bytes, some sum of which passed 255, went
\* through the cipher and back
C4_Witness ==
    /\ pc = "cipher"
    /\ cipher.out.some
    /\ Len(cipher.text) > 5
    /\ \E i \in 1..Len(cipher.text) :
          cipher.text[i] + cipher.key[((i - 1) % 5) + 1] > 255
    /\ cipher.out.val.dec = Ok(cipher.text)

\* the bytes of "secret" encrypted under "abcde"
Secret_abcde == << 212, 199, 198, 214, 202, 213 >>

\* the files on disk that were not there before the step
NewFiles == DOMAIN disk'.files \ DOMAIN disk.files

\* the file open in the viewer: the one under the cursor
Viewed == disk.files[Sel(manager).path].data

Viewing ==
    /\ pc = "loop"
    /\ mode = "Viewer"
    /\ manager.selected.some
    /\ Sel(manager).kind = "TextFile"
    /\ is_file(disk, Sel(manager).path)

\* C5: with the key "abcde", the encrypt-save combo pressed on the buffer
\* "secret" leaves the session in the manager with one new file, listed,
\* that holds the encrypted bytes; and a viewer opened on a file of these
\* bytes shows DecryptedText("secret").
C5_EncryptRoundTrip ==
    /\ [][ ( /\ pc = "loop"
             /\ last_call' = Call("encrypt_save", Ok("Manager"))
             /\ editor.key = Str_abcde
             /\ editor.textarea = Some(<< Str_secret >>) )
           => /\ mode' = "Manager"
              /\ \E p \in NewFiles :
                    /\ NewFiles = { p }
                    /\ disk'.files[p].data = Secret_abcde
                    /\ TextFile(p) \in Members(manager'.entities) ]_vars
    /\ []( (Viewing /\ viewer.key = Str_abcde /\ Viewed = Secret_abcde)
           => viewer.entity = ViewerDecryptedText(Str_secret) )

\* the file saved encrypted is open in the viewer, decrypted
C5_Witness ==
    /\ Viewing
    /\ Viewed = Secret_abcde
    /\ Sel(manager) \in Members(manager.created_entities)
    /\ viewer.entity = ViewerDecryptedText(Str_secret)

\* the root of the session holds no entry
RootEmpty ==
    \A p \in disk.dirs \cup DOMAIN disk.files : ~IsPrefix(manager.root, p) \/ p = manager.root

\* C6: at an empty root, the save combo pressed on a buffer holding the
\* text t leaves the session in the manager with a listing of exactly one
\* entry, a file that holds t; and a viewer opened on a file that holds a
\* text t shows Text(t).
C6_CreateAndView ==
    /\ [][ ( /\ pc = "loop"
             /\ last_call' = Call("save", Ok("Manager"))
             /\ editor.textarea.some
             /\ RootEmpty )
           => /\ mode' = "Manager"
              /\ Len(manager'.entities) = 1
              /\ manager'.entities[1].kind = "TextFile"
              /\ is_file(disk', manager'.entities[1].path)
              /\ disk'.files[manager'.entities[1].path].data
                    = join_lines(editor.textarea.val) ]_vars
    /\ []( (Viewing /\ from_utf8(Viewed).ok) => viewer.entity = ViewerText(Viewed) )

\* at a root that was empty, the text typed and saved is open in the viewer
C6_Witness ==
    /\ Viewing
    /\ manager.root = Dir_B
    /\ Len(manager.entities) = 1
    /\ Viewed = Str_secret
    /\ viewer.entity = ViewerText(Str_secret)

\* the positions of the Action entries of a listing
ActionsAt(es) == { i \in 1..Len(es) : es[i].kind = "Action" }

\* C7: the listing holds Action entries exactly when current is not root,
\* and then they are its last two entries, Back and then Root.
C7_ActionsLastTwo ==
    pc = "api" =>
        LET es == manager.entities
            n == Len(es)
        IN  /\ (ActionsAt(es) # {}) <=> (manager.current # manager.root)
            /\ ActionsAt(es) # {} =>
                  /\ n >= 2
                  /\ ActionsAt(es) = { n - 1, n }
                  /\ es[n - 1] = ActionBack
                  /\ es[n] = ActionRoot

\* below the root, after a file was created there: folder, file, Back, Root
C7_Witness ==
    /\ pc = "api"
    /\ manager.current = Dir_A
    /\ manager.root = Dir_r
    /\ last_call.op = "create_file"
    /\ last_call.res.ok
    /\ Len(manager.entities) = 4
    /\ manager.entities[3] = ActionBack

\* C8: current is root or lies below it, root never changes, and a Back
\* that succeeds moves current up by exactly one level.
C8_CurrentWithinRoot ==
    /\ [](pc = "api" => IsWithin(manager.current, manager.root))
    /\ [][ pc = "api" =>
             /\ manager'.root = manager.root
             /\ ( /\ last_call'.op = "action"
                  /\ last_call'.res.ok
                  /\ manager.selected.some
                  /\ Sel(manager) = ActionBack )
                => /\ manager.current # manager.root
                   /\ Len(manager'.current) = Len(manager.current) - 1
                   /\ IsPrefix(manager'.current, manager.current) ]_vars

\* from C, where a file was created, up to A by an action
C8_Witness ==
    /\ pc = "api"
    /\ manager.root = Dir_r
    /\ manager.current = Dir_A
    /\ last_call.op = "action"
    /\ last_call.res.ok
    /\ \E p \in DOMAIN disk.files : IsPrefix(Dir_C, p)

\* C9 (as claimed): after n calls of next() from an unset cursor on a
\* listing of n >= 1 entries, the cursor is at index 0.
C9_NextNTimesAtZero ==
    (pc = "api" /\ Len(manager.entities) >= 1 /\ next_run = Len(manager.entities))
        => manager.selected = Some(0)

\* C9 (amended): after n calls of next() from an unset cursor on a listing
\* of n >= 1 entries the cursor is at the last index n - 1, and the call
\* after these returns it to index 0.
C9_NextWraps ==
    (pc = "api" /\ Len(manager.entities) >= 1) =>
        /\ next_run = Len(manager.entities)
              => manager.selected = Some(Len(manager.entities) - 1)
        /\ next_run = Len(manager.entities) + 1
              => manager.selected = Some(0)

\* n + 1 calls of next() on a listing of n >= 2 entries
C9_Witness ==
    /\ pc = "api"
    /\ Len(manager.entities) >= 2
    /\ next_run = Len(manager.entities) + 1
    /\ manager.selected = Some(0)

\* C10: on an empty listing next() and previous() leave the cursor unset;
\* on n >= 1 entries next() moves index i to (i + 1) mod n and an unset
\* cursor to 0, previous() moves index i to (i - 1) mod n and an unset cursor
\* to n - 1; neither changes the listing, current, root or created.
C10_NextPreviousCyclic ==
    [][ (pc = "api" /\ last_call'.op \in { "next", "previous" }) =>
          LET n == Len(manager.entities)
              s == manager.selected
              s2 == manager'.selected
          IN  /\ manager' = [ manager EXCEPT !.selected = s2 ]
              /\ disk' = disk
              /\ n = 0 => s = None /\ s2 = None
              /\ (n >= 1 /\ last_call'.op = "next") =>
                    s2 = IF s.some THEN Some((s.val + 1) % n) ELSE Some(0)
              /\ (n >= 1 /\ last_call'.op = "previous") =>
                    s2 = IF s.some THEN Some((s.val - 1) % n) ELSE Some(n - 1) ]_vars

\* previous() has put the cursor on the last of at least two entries
C10_Witness ==
    /\ pc = "api"
    /\ last_call.op = "previous"
    /\ Len(manager.entities) >= 2
    /\ manager.selected = Some(Len(manager.entities) - 1)

\* the entries of directory dir on the disk d, as entities
Children(d, dir) ==
    { Folder(p) : p \in { q \in d.dirs : Len(q) = Len(dir) + 1 /\ IsPrefix(dir, q) } }
    \cup { TextFile(p) : p \in { q \in DOMAIN d.files :
                                    Len(q) = Len(dir) + 1 /\ IsPrefix(dir, q) } }

\* the listing of m is a listing of its current directory as it is on d
Relisted(m, d) ==
    /\ { e \in Members(m.entities) : e.kind # "Action" } = Children(d, m.current)
    /\ Len(m.entities) = Cardinality(Children(d, m.current))
                            + Cardinality(ActionsAt(m.entities))

\* C11: a refresh that succeeds, called as such or at the end of a
\* create_file or a delete_selected that succeeds, re-lists the current
\* directory and leaves current and root as they were; a cursor that was set
\* and is still below the length of the new listing is kept, one that is no
\* longer in range becomes unset, and an unset cursor stays unset.
C11_RefreshKeepsCursor ==
    [][ ( /\ pc = "api"
          /\ last_call'.op \in { "refresh", "create_file", "delete_selected" }
          /\ last_call'.res.ok )
        => /\ manager'.current = manager.current
           /\ manager'.root = manager.root
           /\ Relisted(manager', disk')
           /\ manager'.selected =
                 IF /\ manager.selected.some
                    /\ manager.selected.val < Len(manager'.entities)
                 THEN manager.selected
                 ELSE None ]_vars

\* a delete_selected took a file out of the listing and the cursor stayed
\* on its index, now the index of the last entry
C11_Witness ==
    /\ pc = "api"
    /\ last_call.op = "delete_selected"
    /\ last_call.res.ok
    /\ manager.created_entities = << >>
    /\ clock = 1
    /\ manager.selected.some
    /\ manager.selected.val = Len(manager.entities) - 1

\* C12 (as claimed): in every state of the session the buffer exists
\* exactly when the mode is Editor.
C12_BufferIffEditor ==
    pc = "loop" => (editor.textarea.some <=> mode = "Editor")

\* C12 (amended): the session starts without a buffer; the buffer changes
\* only in three ways: the step from Manager to Editor by the new-editor key
\* allocates an empty one, a key typed in Editor mode edits the one there
\* is, and the save and encrypt-save combos take it (whether or not the file
\* is then created).  The quit key leaves the editor as it is.
C12_BufferLifecycle ==
    /\ pc = "loop" => editor.textarea = None
    /\ [][ (pc = "loop" /\ pc' = "loop") =>
             /\ editor'.textarea # editor.textarea =>
                   \/ /\ mode = "Manager" /\ mode' = "Editor"
                      /\ editor'.textarea = Some(TextArea_default)
                   \/ /\ mode = "Editor" /\ mode' = "Editor" /\ clock' = clock
                      /\ editor.textarea.some /\ editor'.textarea.some
                   \/ /\ mode = "Editor" /\ clock' # clock
                      /\ editor'.textarea = None
             /\ clock' # clock => mode = "Editor" /\ editor'.textarea = None
             /\ (mode = "Editor" /\ mode' = "Manager" /\ clock' = clock)
                   => editor' = editor ]_vars

\* the editor was left by the quit key: the session is in the manager and
\* the buffer, with the text typed, is still there
C12_Witness ==
    /\ pc = "loop"
    /\ mode = "Manager"
    /\ editor.textarea = Some(<< Str_secret >>)

\* C13: finish and finish_encrypt leave the editor without a buffer and
\* return without error; called on an editor without a buffer (never
\* initialised, or finished and not initialised again) they return the
\* empty string and the empty byte sequence; and nothing but init gives an
\* editor without a buffer a buffer again.
C13_FinishConsumes ==
    [][ pc = "editor" =>
          /\ last_call'.op \in Finishes =>
                /\ editor'.textarea = None
                /\ last_call'.res.ok
                /\ ~editor.textarea.some => last_call'.res.val = << >>
                /\ last_call'.run = 2 =>
                      ~editor.textarea.some /\ last_call'.res.val = << >>
          /\ (~editor.textarea.some /\ editor'.textarea.some)
                => last_call'.op = "init" ]_vars

\* the buffer was taken by a finish, and the finish_encrypt called right
\* after it returned no bytes
C13_Witness ==
    /\ pc = "editor"
    /\ last_call.op = "finish_encrypt"
    /\ last_call.run = 2
    /\ last_call.res = Ok(<< >>)
    /\ editor.textarea = None

\* the state Viewer::clear leaves: Text(""), no name, scroll 0
IsCleared(v) ==
    /\ v.entity = ViewerText(Str_empty)
    /\ v.name = None
    /\ v.scroll = 0

\* C14: whenever the mode is Manager or Editor the viewer is in the cleared
\* state, and so is the viewer a key event that ends in mode Exit leaves.
C14_ViewerClearedOutsideViewer ==
    /\ [](pc = "loop" /\ mode # "Viewer" => IsCleared(viewer))
    /\ [](pc = "loop" =>
            \A key \in Keys :
                LET u == update(key, mode, manager, viewer, editor, disk,
                                clock + 1, {})
                IN  u.res = Ok("Exit") => IsCleared(u.viewer))

\* a file was viewed, scrolled or not, and the view was dismissed
C14_Witness ==
    /\ pc = "loop"
    /\ mode = "Manager"
    /\ last_call = Call("dismiss", Ok("Manager"))
    /\ IsCleared(viewer)

\* C15 (as claimed): scroll_up(n) sets the offset s to max(s - n, 0), and
\* scroll_down(n) sets it to s + n.
C15_ScrollSaturates ==
    [][ pc = "viewer" =>
          LET s == viewer.scroll
              n == last_call'.value
          IN  /\ last_call'.op = "scroll_up" =>
                    viewer'.scroll = IF s - n > 0 THEN s - n ELSE 0
              /\ last_call'.op = "scroll_down" => viewer'.scroll = s + n ]_vars

\* C16 (as claimed): a session quit from the manager prints the completion
\* message and the process ends with status 0; a session that ended with an
\* error prints the error message and the process ends with a status that is
\* not 0, as does a process whose terminal could not be set up.
C16_ProcessExit ==
    pc = "done" =>
        /\ result = "Ok" => output = "End" /\ exit_code = 0
        /\ result = "Err" => output = "Error" /\ exit_code # 0
        /\ result = "none" => output = "Panic" /\ exit_code # 0

\* the place of a kind of entity in a listing: folders, files, actions
KindRank(e) == IF e.kind = "Folder" THEN 0 ELSE IF e.kind = "TextFile" THEN 1 ELSE 2

\* the listing of m is in order for the disk d: the folders, ascending by
\* path, then the files, newest first, then Back and Root if below the root
Ordered(m, d) ==
    LET es == m.entities
        n == Len(es)
    IN  /\ \A i, j \in 1..n : i < j =>
              /\ KindRank(es[i]) <= KindRank(es[j])
              /\ (es[i].kind = "Folder" /\ es[j].kind = "Folder")
                    => PathLess(es[i].path, es[j].path)
              /\ (es[i].kind = "TextFile" /\ es[j].kind = "TextFile")
                    => d.files[es[i].path].mtime > d.files[es[j].path].mtime
        /\ SubSeq(es, Cardinality(Children(d, m.current)) + 1, n)
              = IF m.current = m.root THEN << >> ELSE << ActionBack, ActionRoot >>

\* C17: the listing a FileManager is constructed with, and every listing
\* built by a navigation, a refresh or the refresh at the end of create_file
\* and delete_selected, holds the entries of the current directory in the
\* order: folders ascending by path, files descending by modification time,
\* then Back and Root exactly if current is not root.
C17_ListingOrder ==
    /\ pc = "api" => Relisted(manager, disk) /\ Ordered(manager, disk)
    /\ [][ ( /\ pc = "api"
             /\ last_call'.op \in { "refresh", "create_file", "delete_selected",
                                    "action" }
             /\ last_call'.res.ok
             /\ last_call'.op = "action" =>
                   manager.selected.some /\ Sel(manager).kind # "TextFile" )
           => Relisted(manager', disk') /\ Ordered(manager', disk') ]_vars

\* two folders, and a file just created listed before the two older files
C17_Witness ==
    /\ pc = "api"
    /\ last_call.op = "create_file"
    /\ last_call.res.ok
    /\ manager.entities = << Folder(Dir_A), Folder(Dir_B),
                             TextFile(join(Dir_r, to_rfc3339(1))),
                             TextFile(File_f2), TextFile(File_f1) >>

\* C18 (as claimed): when the encrypt-save combo has saved the text t of a
\* buffer (whatever t is, the empty text included), selecting the file it
\* created and pressing Enter in the same session leads to Viewer mode with
\* the content DecryptedText(t).
C18_DecryptOnViewAlways ==
    [][ ( /\ pc = "loop"
          /\ clock' # clock
          /\ last_call' = Call("encrypt_save", Ok("Manager"))
          /\ editor.textarea.some )
        => LET t == join_lines(editor.textarea.val)
               es == manager'.entities
           IN  \A i \in 1..Len(es) :
                   (es[i].kind = "TextFile" /\ es[i].path \in NewFiles) =>
                       LET u == update(KeyEnter, "Manager",
                                       [ manager' EXCEPT !.selected = Some(i - 1) ],
                                       viewer', editor', disk', clock', {})
                       IN  /\ u.res = Ok("Viewer")
                           /\ u.viewer.entity = ViewerDecryptedText(t) ]_vars

\* C19: delete_selected on a selected Folder, Action entry or TextFile that
\* is not in created_entities returns the error of its case and changes
\* neither the disk nor the manager (created_entities, entities, selected,
\* current).
C19_RejectedDeleteChangesNothing ==
    [][ ( /\ pc = "api"
          /\ last_call'.op = "delete_selected"
          /\ manager.selected.some
          /\ \/ Sel(manager).kind \in { "Folder", "Action" }
             \/ Sel(manager) \notin Members(manager.created_entities) )
        => /\ ~last_call'.res.ok
           /\ last_call'.res.err =
                 IF Sel(manager).kind = "Folder" THEN "IsFolder"
                 ELSE IF Sel(manager).kind = "Action" THEN "IsAction"
                 ELSE "NotCreated"
           /\ manager' = manager
           /\ disk' = disk ]_vars

\* a file was created, and then the delete of a file that was there before
\* was rejected
C19_Witness ==
    /\ pc = "api"
    /\ last_call.op = "delete_selected"
    /\ ~last_call.res.ok
    /\ last_call.res.err = "NotCreated"
    /\ manager.created_entities # << >>
    /\ manager.selected.some
    /\ Sel(manager) = TextFile(File_f2)
    /\ is_file(disk, File_f2)

\* C20: in every state of a FileManager the cursor is unset or an index
\* below the number of entities of the listing.
C20_CursorInRange ==
    pc = "api" =>
        (manager.selected.some =>
            /\ manager.selected.val >= 0
            /\ manager.selected.val < Len(manager.entities))

\* below the root, a refresh set the cursor again on the last entry, Root
C20_Witness ==
    /\ pc = "api"
    /\ last_call.op = "refresh"
    /\ last_call.res.ok
    /\ manager.selected = Some(Len(manager.entities) - 1)
    /\ Sel(manager) = ActionRoot

\* C21: the quit key handled in Editor mode answers Manager and leaves the
\* editor, its buffer included, as it is; the open-editor key handled in
\* Manager mode answers Editor and leaves the editor as it is, while the
\* new-editor key answers Editor with an empty buffer in place of the one
\* retained; and the save combo writes the text of the buffer it finds to
\* the file it creates (no bytes for an empty buffer).
C21_QuitKeepsBuffer ==
    /\ [](pc = "loop" /\ mode = "Editor" =>
            LET u == update(KeyEsc, mode, manager, viewer, editor, disk,
                            clock + 1, {})
            IN  u.res = Ok("Manager") /\ u.editor = editor)
    /\ [](pc = "loop" /\ mode = "Manager" =>
            LET uo == update(KeyChar(Ch_e), mode, manager, viewer, editor, disk,
                             clock + 1, {})
                un == update(KeyChar(Ch_n), mode, manager, viewer, editor, disk,
                             clock + 1, {})
            IN  /\ uo.res = Ok("Editor") /\ uo.editor = editor
                /\ un.res = Ok("Editor")
                /\ un.editor.textarea = Some(TextArea_default)
                /\ join_lines(un.editor.textarea.val) = Str_empty)
    /\ [][ ( /\ pc = "loop"
             /\ clock' # clock
             /\ last_call' = Call("save", Ok("Manager"))
             /\ editor.textarea.some )
           => \E p \in NewFiles :
                 /\ NewFiles = { p }
                 /\ disk'.files[p].data = join_lines(editor.textarea.val) ]_vars

\* the text typed was kept over the quit key: the open-editor key has led
\* back from the manager to the editor, which holds the text
C21_Witness ==
    /\ pc = "loop"
    /\ mode = "Editor"
    /\ last_call = Call("open_editor", Ok("Editor"))
    /\ editor.textarea = Some(<< Str_secret >>)

\* the keys the editor hands to its buffer, and the two that save
TextKeys == { k \in Keys : k.code # "Esc" /\ ~CallsCreateFile(k, "Editor") }
SaveKeys == { k \in Keys : CallsCreateFile(k, "Editor") }

\* C22: when create_file fails under the save combo or the encrypt-save
\* combo, the mode stays Editor and the error becomes the status, while the
\* editor is left without a buffer: from there every text key leaves
\* everything as it is, a repeated save or encrypt-save that succeeds
\* creates an empty file, the open-editor key from the manager still finds
\* no buffer, and only the new-editor key gives the editor a buffer again.
C22_FailedSaveConsumes ==
    [][ ( /\ pc = "loop"
          /\ clock' # clock
          /\ ~last_call'.res.ok )
        => /\ last_call'.op \in { "save", "encrypt_save" }
           /\ mode = "Editor" /\ mode' = "Editor"
           /\ status' = last_call'.res.err /\ status' # "Ok"
           /\ editor'.textarea = None
           /\ \A k \in TextKeys :
                LET u == update(k, mode', manager', viewer', editor', disk',
                                clock' + 1, {})
                IN  /\ u.res = Ok("Editor")
                    /\ u.editor = editor' /\ u.disk = disk'
                    /\ u.manager = manager' /\ u.viewer = viewer'
           /\ \A k \in SaveKeys :
                LET u == update(k, mode', manager', viewer', editor', disk',
                                clock' + 1, {})
                    p == join(manager'.current, to_rfc3339(clock' + 1))
                IN  /\ u.res = Ok("Manager")
                    /\ DOMAIN u.disk.files = DOMAIN disk'.files \cup { p }
                    /\ p \notin DOMAIN disk'.files
                    /\ u.disk.files[p].data = Str_empty
                    /\ u.editor.textarea = None
           /\ LET q == update(KeyEsc, mode', manager', viewer', editor', disk',
                              clock' + 1, {})
                  uo == update(KeyChar(Ch_e), "Manager", q.manager, q.viewer,
                               q.editor, q.disk, clock' + 1, {})
                  un == update(KeyChar(Ch_n), "Manager", q.manager, q.viewer,
                               q.editor, q.disk, clock' + 1, {})
              IN  /\ q.res = Ok("Manager") /\ q.editor.textarea = None
                  /\ uo.res = Ok("Editor") /\ uo.editor.textarea = None
                  /\ un.res = Ok("Editor")
                  /\ un.editor.textarea = Some(TextArea_default) ]_vars

\* a save of the typed text has failed (the file was written, the listing
\* after it could not be read): the editor is still the mode, the error is
\* the status and the buffer is gone
C22_Witness ==
    /\ pc = "loop"
    /\ \E p \in DOMAIN disk.files : disk.files[p].data = Str_secret
    /\ mode = "Editor"
    /\ last_call.op = "save"
    /\ ~last_call.res.ok
    /\ status = last_call.res.err
    /\ editor.textarea = None

\* the created collection of m holds no entity twice, and each of its
\* entities is a file that is on the disk d
Consistent(m, d) ==
    LET q == m.created_entities
    IN  /\ \A i, j \in 1..Len(q) : q[i] = q[j] => i = j
        /\ \A i \in 1..Len(q) : q[i].kind = "TextFile" /\ is_file(d, q[i].path)

\* C23 (as claimed): the created collection is empty before the first call,
\* and in every state the API reaches, and after one more create_file (with
\* the default name or a name of the caller, used before or not) or
\* delete_selected from it, the collection holds no entity twice and every
\* entity in it is a file on the disk.
C23_CreatedConsistent ==
    pc = "api" =>
        /\ last_call.op = "none" => manager.created_entities = << >>
        /\ Consistent(manager, disk)
        /\ \A data \in FileData, file_name \in FileNames :
              LET r == create_file(manager, disk, clock + 1, data, file_name, {})
              IN  Consistent(r.m, r.disk)
        /\ LET r == delete_selected(manager, disk, {})
           IN  Consistent(r.m, r.disk)

\* what run_session's loop makes of the quit key in mode md
Quit(md, m, v, ed, d) ==
    LET u == update(KeyEsc, md, m, v, ed, d, clock + 1, {})
    IN  [ u EXCEPT !.res = run_session_match(u.res, md, status) ]

\* C24: the loop never runs in mode Exit; in every state of the loop,
\* whatever the status, the cursor, the viewer and the editor hold, the quit
\* key leads from Manager to Exit and from Viewer and Editor to Manager, from
\* where a second quit key leads to Exit; and the step that sets the mode to
\* Exit leaves the loop with Ok.
C24_QuitEndsSession ==
    /\ [](pc = "loop" =>
            /\ mode \in { "Manager", "Viewer", "Editor" }
            /\ LET q1 == Quit(mode, manager, viewer, editor, disk)
                   q2 == Quit(q1.res.mode, q1.manager, q1.viewer, q1.editor,
                              q1.disk)
               IN  /\ q1.res.status = "Ok" /\ q1.disk = disk
                   /\ IF mode = "Manager" THEN q1.res.mode = "Exit"
                      ELSE /\ q1.res.mode = "Manager"
                           /\ q2.res.mode = "Exit" /\ q2.disk = disk)
    /\ [][ (mode # "Exit" /\ mode' = "Exit")
           => pc = "loop" /\ pc' = "shutdown" /\ result' = "Ok" ]_vars
    /\ [][ mode = "Exit" => pc' # "loop" /\ mode' = "Exit" ]_vars

\* the quit key has ended a session that had written the typed text from
\* the editor
C24_Witness ==
    /\ mode = "Exit"
    /\ pc = "shutdown"
    /\ result = "Ok"
    /\ last_call = Call("update", Ok("Exit"))
    /\ \E p \in DOMAIN disk.files : disk.files[p].data = Str_secret

============================================================================
